---- MODULE Spec2Model ----
(***************************************************************************)
(* One run of one of the four image-generation command-line scripts of     *)
(* server/ai: genai-image.py, multi-model-image.py, imagen-generate.py and *)
(* generate_image.py.  A run is main() reading sys.argv[1], calling the    *)
(* script's generate function, and printing a JSON object.  The remote     *)
(* services, the client constructor and the local drawing step are the     *)
(* environment: each answers nondeterministically.                         *)
(***************************************************************************)
EXTENDS Naturals, Sequences, FiniteSets, TLC

VARIABLES
    script,        \* which of the four files is run
    env,           \* the environment variables that are set (non-empty)
    argv,          \* sys.argv[1], classified
    pc,            \* position of the run
    prompt,        \* main's local `prompt`
    aspect_ratio,  \* main's local `aspect_ratio`
    entered,       \* the generate function has been called
    idx,           \* genai-image.py: index of the next entry of model_options
    calls,         \* remote calls made so far, in order, with their outcome
    last_error,    \* genai-image.py: local `last_error`
    colors,        \* genai-image.py: how color1, color2 were obtained
    synth,         \* the local drawing/encoding step
    dims,          \* (width, height) looked up in aspect_map
    result,        \* the dict returned by the generate function
    raised,        \* the exception that left the generate function
    stdout,        \* the JSON object main printed
    exit_code,     \* the process exit status
    base_colors,   \* create_ai_styled_image: the three colours of the gradient
    accent_color,  \* create_ai_styled_image: the accent colour
    robot,         \* create_ai_styled_image: the robot glyph was drawn
    shapes_left,   \* create_ai_styled_image: iterations of the shape loop still to run
    overlays,      \* create_ai_styled_image: shapes composited onto the image so far
    shape,         \* create_ai_styled_image: the shape composited last
    text_response, \* genai-image.py: the answer to the colour-description request
    color1,        \* genai-image.py: start colour of the gradient
    color2,        \* genai-image.py: end colour of the gradient
    prompt_display,  \* the prompt snippet drawn on a placeholder
    enhanced_prompt  \* generate_image.py: local `enhanced_prompt`

\* what create_ai_styled_image put on its image
styled == <<base_colors, accent_color, robot, shapes_left, overlays, shape>>

\* the colour choice of genai-image.py
gradient == <<text_response, color1, color2>>

vars == <<script, env, argv, pc, prompt, aspect_ratio, entered, idx, calls,
          last_error, colors, synth, dims, result, raised, stdout, exit_code,
          styled, gradient, prompt_display, enhanced_prompt>>

----------------------------------------------------------------------------
(* The four scripts and their inputs *)

GENAI == "genai-image.py"
MULTI == "multi-model-image.py"
IMAGEN == "imagen-generate.py"
GEMINI == "generate_image.py"

Scripts == {GENAI, MULTI, IMAGEN, GEMINI}

EnvVars == {"VERTEX_API_KEY", "GOOGLE_CLOUD_API_KEY", "GEMINI_API_KEY", "OPENAI_API_KEY"}

\* input_data.get('prompt', '') and .get('aspectRatio', '16:9') on a key that is absent
Absent == "<absent>"

Prompts == {"cat", "ROBOT army"}

\* prompts of 60, 61, 80 and 81 characters
LongPrompts ==
    {"a lighthouse on a rocky shore under grey clouds, gulls glidi",
     "a lighthouse on a rocky shore under grey clouds, gulls glidin",
     "a lighthouse on a rocky shore under grey clouds, gulls gliding over the cold nor",
     "a lighthouse on a rocky shore under grey clouds, gulls gliding over the cold nort"}

\* prompts for the placeholder renderers: keywords in either case, keywords of
\* several categories in both orders, a keyword inside another word, and
\* prompts around the lengths at which the snippet is cut
RenderPrompts ==
    {"cat", "ROBOT army", "robot army", "office robot", "sea at work", "work at sea",
     "sunset tree", "Ocean Sunrise", "water", "forest", "rain"} \cup LongPrompts

AspectRatios == {"1:1", "16:9", "9:16", "4:3", "3:4", "2:1"}

\* sys.argv[1]: missing, not JSON, JSON that is no object, or an object
Inputs ==
    {[kind |-> k, prompt |-> Absent, aspectRatio |-> Absent] : k \in {"noarg", "badjson", "nonobject"}}
    \cup {[kind |-> "object", prompt |-> p, aspectRatio |-> a] :
            p \in Prompts \cup {Absent, ""}, a \in AspectRatios \cup {Absent}}

\* input_data.get('businessContext', {}): a dict with any of four keys, each
\* with an empty or a non-empty text
ContextKeys == {"businessName", "productName", "brandTone", "callToAction"}

ContextValues ==
    [businessName |-> {"", "Acme"}, productName |-> {"", "Mug"},
     brandTone |-> {"", "playful"}, callToAction |-> {"", "Buy now"}]

EmptyContext == <<>>

BusinessContexts ==
    UNION {{bc \in [K -> UNION {ContextValues[k] : k \in K}] :
                \A k \in K : bc[k] \in ContextValues[k]} : K \in SUBSET ContextKeys}

\* sys.argv[1] of generate_image.py: an object with a prompt and a businessContext
PromptInputs ==
    {[kind |-> "object", prompt |-> "cat", aspectRatio |-> a, businessContext |-> bc] :
        a \in {Absent, "1:1"}, bc \in BusinessContexts}
    \cup {[kind |-> "object", prompt |-> "cat", aspectRatio |-> Absent]}

----------------------------------------------------------------------------
(* Values *)

NoError == [src |-> "none", what |-> "", wrapped |-> FALSE]

Err(src, what) == [src |-> src, what |-> what, wrapped |-> FALSE]

NoResult == [none |-> TRUE]

NoOutput == [none |-> TRUE]

NoDims == <<0, 0>>

NoShape == [type |-> "none", fill |-> <<>>]

\* exit_code is <<>> while the process runs and <<status>> once it has exited
Running == <<>>

HasResult == "success" \in DOMAIN result

\* base64 text of the image bytes obtained from `origin`
Payload(origin) == <<"base64", origin>>

----------------------------------------------------------------------------
(* Backends *)

model_options == <<"imagen-3.0-generate-002", "imagen-4.0-fast-generate-001",
                   "imagegeneration@006", "imagegeneration@005">>

DALLE == "dall-e-3"
IMAGEN_MODEL == "imagen-4.0-generate-001"
GEMINI_MODEL == "gemini-2.5-flash-image-preview"
COLOR_MODEL == "gemini-2.0-flash-exp"

\* the image backends of a script, in the order the script tries them
Chain(s) ==
    CASE s = GENAI -> model_options
      [] s = MULTI -> <<DALLE>>
      [] s = IMAGEN -> <<IMAGEN_MODEL>>
      [] s = GEMINI -> <<GEMINI_MODEL>>

Range(seq) == {seq[i] : i \in 1..Len(seq)}

ImageBackends == UNION {Range(Chain(s)) : s \in Scripts}

\* the calls made to image backends (the colour-description call is none)
IsImageCall(c) == c.name \in ImageBackends

Invoked == SelectSeq(calls, IsImageCall)

Call(name, outcome) == [name |-> name, outcome |-> outcome]

----------------------------------------------------------------------------
(* The aspect-ratio lookup of each script that has one *)

AspectArg(a) == IF a = Absent THEN "16:9" ELSE a

aspect_map_genai(a) ==
    CASE a = "1:1" -> <<1024, 1024>>
      [] a = "16:9" -> <<1024, 576>>
      [] a = "9:16" -> <<576, 1024>>
      [] a = "4:3" -> <<1024, 768>>
      [] a = "3:4" -> <<768, 1024>>
      [] OTHER -> <<1024, 576>>

\* a lookup whose default is the square size
aspect_map_multi_square_default(a) ==
    CASE a = "1:1" -> <<1024, 1024>>
      [] a = "16:9" -> <<1024, 576>>
      [] a = "9:16" -> <<576, 1024>>
      [] a = "4:3" -> <<1024, 768>>
      [] a = "3:4" -> <<768, 1024>>
      [] OTHER -> <<1024, 1024>>

aspect_map_multi(a) ==
    CASE a = "1:1" -> <<1024, 1024>>
      [] a = "16:9" -> <<1024, 576>>
      [] a = "9:16" -> <<576, 1024>>
      [] a = "4:3" -> <<1024, 768>>
      [] a = "3:4" -> <<768, 1024>>
      [] OTHER -> <<1024, 576>>

\* aspect_map.get(aspect_ratio, aspect_map["16:9"]), as (width, height)
aspect_map_imagen(a) ==
    LET sixteen_nine == <<1024, 576>>
    IN  CASE a = "1:1" -> <<1024, 1024>>
          [] a = "16:9" -> sixteen_nine
          [] a = "9:16" -> <<576, 1024>>
          [] a = "4:3" -> <<1024, 768>>
          [] a = "3:4" -> <<768, 1024>>
          [] OTHER -> sixteen_nine

----------------------------------------------------------------------------
(* Strings *)

UpperLetters == "ABCDEFGHIJKLMNOPQRSTUVWXYZ"

LowerLetters == "abcdefghijklmnopqrstuvwxyz"

CharAt(str, i) == SubSeq(str, i, i)

LowerChar(c) ==
    IF \E i \in 1..Len(UpperLetters) : CharAt(UpperLetters, i) = c
    THEN CharAt(LowerLetters, CHOOSE i \in 1..Len(UpperLetters) : CharAt(UpperLetters, i) = c)
    ELSE c

RECURSIVE LowerFrom(_, _)
LowerFrom(str, i) ==
    IF i > Len(str) THEN "" ELSE LowerChar(CharAt(str, i)) \o LowerFrom(str, i + 1)

\* a lower-casing that leaves the text as it is
LowerUnchanged(str) == str

\* str.lower()
Lower(str) == LowerFrom(str, 1)

\* `sub in str`
Contains(str, sub) ==
    \E i \in 1..(Len(str) + 1) :
        i + Len(sub) - 1 <= Len(str) /\ SubSeq(str, i, i + Len(sub) - 1) = sub

----------------------------------------------------------------------------
(* genai-image.py: the colours and the snippet of the fallback gradient *)

\* answers of gemini-2.0-flash-exp: two codes, one code, none, and four
\* candidates of which the first has a letter that is no hex digit
ColorResponses ==
    {"color1:#FF5733 color2:#33c1ff", "#a1b2c3", "warm tones",
     "#12345G #ABCDEF #000000 #fedcba"}

HexDigits == "0123456789ABCDEFabcdef"

IsHexCode(text, i) ==
    /\ i + 6 <= Len(text)
    /\ CharAt(text, i) = "#"
    /\ \A k \in 1..6 : Contains(HexDigits, CharAt(text, i + k))

RECURSIVE FindColorsFrom(_, _)
FindColorsFrom(text, i) ==
    IF i > Len(text) THEN <<>>
    ELSE IF IsHexCode(text, i)
         THEN <<SubSeq(text, i, i + 6)>> \o FindColorsFrom(text, i + 7)
         ELSE FindColorsFrom(text, i + 1)

\* re.findall(r'#[0-9A-Fa-f]{6}', text_response)
FindColors(text) == FindColorsFrom(text, 1)

\* hashlib.md5(prompt.encode()).hexdigest(), for the prompts of this module
Md5Hex(p) ==
    CASE p = "cat" ->
           "d077f244def8a70e5ea758bd8352fcd8"
      [] p = "ROBOT army" ->
           "a8db63d60a978156f28acc014f385312"
      [] p = "a lighthouse on a rocky shore under grey clouds, gulls glidi" ->
           "4371b9ed50b03a52088977e2816e540f"
      [] p = "a lighthouse on a rocky shore under grey clouds, gulls glidin" ->
           "d135daa5e9dbce1e317b7c641036ed37"
      [] p = "a lighthouse on a rocky shore under grey clouds, gulls gliding over the cold nor" ->
           "e3bb82afa1161f5d464a8ac16ec91119"
      [] p = "a lighthouse on a rocky shore under grey clouds, gulls gliding over the cold nort" ->
           "91a4cf5cdcad408decc47ff92885778a"
      [] p = "robot army" ->
           "c29e25f8707a0ba1b37fbf3dc13c1856"
      [] p = "office robot" ->
           "fb23cfe0cc5c3f3ccebec755ea40ce6d"
      [] p = "sea at work" ->
           "cb837da59755a2dada4dd4a55651006d"
      [] p = "work at sea" ->
           "3247005ab1daceb73a59f912a9179a05"
      [] p = "sunset tree" ->
           "8f16a267fb468c1c1b5b6b96ab480900"
      [] p = "Ocean Sunrise" ->
           "6f8384dc46b9ef57a6ba89274f94fee2"
      [] p = "water" ->
           "9460370bb0ca1c98a779b1bcc6861c2c"
      [] p = "forest" ->
           "f379cfd7a55b621577a8389d1817a102"
      [] p = "rain" ->
           "23678db5efde9ab46bce8c23a6d91b50"

\* a second colour that starts one digit early
HashColorsOverlapping(p) ==
    <<"#" \o SubSeq(Md5Hex(p), 1, 6), "#" \o SubSeq(Md5Hex(p), 6, 11)>>

\* f"#{hash_hex[:6]}", f"#{hash_hex[6:12]}"
HashColors(p) ==
    <<"#" \o SubSeq(Md5Hex(p), 1, 6), "#" \o SubSeq(Md5Hex(p), 7, 12)>>

\* color1, color2 from the answer, or from the hash of the prompt
ChooseColors(found, p) ==
    IF Len(found) >= 2 THEN <<found[1], found[2]>> ELSE HashColors(p)

\* a cut at the length the other renderer uses
PromptDisplayGenaiAt80(p) == IF Len(p) > 80 THEN SubSeq(p, 1, 80) \o "..." ELSE p

\* prompt[:60] + "..." if len(prompt) > 60 else prompt
PromptDisplayGenai(p) == IF Len(p) > 60 THEN SubSeq(p, 1, 60) \o "..." ELSE p

----------------------------------------------------------------------------
(* multi-model-image.py: create_ai_styled_image *)

\* a chain that tests the office keywords before the tech keywords
ThemeOfficeFirst(prompt_lower) ==
    IF Contains(prompt_lower, "office") \/ Contains(prompt_lower, "work")
    THEN "office"
    ELSE IF Contains(prompt_lower, "robot") \/ Contains(prompt_lower, "ai")
            \/ Contains(prompt_lower, "tech")
    THEN "tech"
    ELSE IF Contains(prompt_lower, "nature") \/ Contains(prompt_lower, "forest")
            \/ Contains(prompt_lower, "tree")
    THEN "nature"
    ELSE IF Contains(prompt_lower, "sunset") \/ Contains(prompt_lower, "sunrise")
    THEN "sunset"
    ELSE IF Contains(prompt_lower, "ocean") \/ Contains(prompt_lower, "water")
            \/ Contains(prompt_lower, "sea")
    THEN "ocean"
    ELSE "default"

\* the branch of the if/elif chain that is taken
Theme(prompt_lower) ==
    IF Contains(prompt_lower, "robot") \/ Contains(prompt_lower, "ai")
       \/ Contains(prompt_lower, "tech")
    THEN "tech"
    ELSE IF Contains(prompt_lower, "office") \/ Contains(prompt_lower, "work")
    THEN "office"
    ELSE IF Contains(prompt_lower, "nature") \/ Contains(prompt_lower, "forest")
            \/ Contains(prompt_lower, "tree")
    THEN "nature"
    ELSE IF Contains(prompt_lower, "sunset") \/ Contains(prompt_lower, "sunrise")
    THEN "sunset"
    ELSE IF Contains(prompt_lower, "ocean") \/ Contains(prompt_lower, "water")
            \/ Contains(prompt_lower, "sea")
    THEN "ocean"
    ELSE "default"

\* base_colors and accent_color as the branch assigns them
ThemeColors(theme) ==
    CASE theme = "tech" ->
           [base_colors |-> <<(<<0, 100, 200>>), <<0, 200, 255>>, <<100, 150, 255>>>>,
            accent_color |-> <<0, 255, 200>>]
      [] theme = "office" ->
           [base_colors |-> <<(<<100, 120, 140>>), <<150, 170, 190>>, <<200, 210, 220>>>>,
            accent_color |-> <<70, 130, 180>>]
      [] theme = "nature" ->
           [base_colors |-> <<(<<34, 139, 34>>), <<60, 179, 113>>, <<144, 238, 144>>>>,
            accent_color |-> <<255, 215, 0>>]
      [] theme = "sunset" ->
           [base_colors |-> <<(<<255, 94, 77>>), <<255, 140, 90>>, <<255, 190, 130>>>>,
            accent_color |-> <<147, 112, 219>>]
      [] theme = "ocean" ->
           [base_colors |-> <<(<<0, 119, 190>>), <<0, 150, 199>>, <<72, 202, 228>>>>,
            accent_color |-> <<255, 255, 200>>]
      [] theme = "default" ->
           [base_colors |-> <<(<<102, 126, 234>>), <<118, 75, 162>>, <<237, 117, 130>>>>,
            accent_color |-> <<255, 200, 100>>]

\* a glyph test on the prompt as typed
DrawsRobotCaseSensitive(prompt_lower) == Contains(prompt, "robot")

\* `if 'robot' in prompt_lower:`
DrawsRobot(prompt_lower) == Contains(prompt_lower, "robot")

\* random.randint(3, 7)
MinShapes == 3

MaxShapes == 7

ShapeTypes == {"circle", "rectangle", "triangle"}

\* two of the values of random.randint(30, 100)
Alphas == {30, 100}

\* prompt[:80] + "..." if len(prompt) > 80 else prompt
PromptDisplayMulti(p) == IF Len(p) > 80 THEN SubSeq(p, 1, 80) \o "..." ELSE p

----------------------------------------------------------------------------
(* The dicts the generate functions return *)

\* a result that names the head of the list instead of the model that answered
GenaiSuccessFirstModel(model_name) ==
    [success |-> TRUE, image_data |-> Payload(model_name), mime_type |-> "image/*",
     prompt |-> prompt, aspect_ratio |-> aspect_ratio, model |-> model_options[1]]

GenaiSuccess(model_name) ==
    [success |-> TRUE, image_data |-> Payload(model_name), mime_type |-> "image/*",
     prompt |-> prompt, aspect_ratio |-> aspect_ratio, model |-> model_name]

GenaiPlaceholder ==
    [success |-> TRUE, image_data |-> Payload("fallback-gradient"), mime_type |-> "image/png",
     prompt |-> prompt, aspect_ratio |-> aspect_ratio, model |-> "fallback-gradient",
     note |-> "Using fallback gradient due to API limitations"]

\* f"All generation methods failed. Last error: {last_error or str(fallback_error)}"
GenaiAllFailed(fallback_error) ==
    [success |-> FALSE,
     error |-> [(IF last_error # NoError THEN last_error ELSE fallback_error)
                   EXCEPT !.wrapped = TRUE],
     prompt |-> prompt]

GenaiOuterFailure(e) == [success |-> FALSE, error |-> e, prompt |-> prompt]

MultiDalleSuccess ==
    [success |-> TRUE, image_data |-> Payload(DALLE), mime_type |-> "image/png",
     prompt |-> prompt, aspect_ratio |-> aspect_ratio, model |-> DALLE]

MultiPlaceholder ==
    [success |-> TRUE, image_data |-> Payload("ai-styled-generator"), mime_type |-> "image/png",
     prompt |-> prompt, aspect_ratio |-> aspect_ratio, model |-> "ai-styled-generator",
     note |-> "Generated using AI-styled image creator"]

MultiFailure(e) == [success |-> FALSE, error |-> e, prompt |-> prompt]

ImagenSuccess ==
    [success |-> TRUE, image_data |-> Payload(IMAGEN_MODEL), mime_type |-> "image/png",
     prompt |-> prompt, aspect_ratio |-> aspect_ratio, model |-> IMAGEN_MODEL]

\* a failure dict whose message is stored under another key
ImagenNoImageMessageKey ==
    [success |-> FALSE, message |-> Err("backend", "No image generated in response"),
     response |-> "result"]

ImagenNoImage ==
    [success |-> FALSE, error |-> Err("backend", "No image generated in response"),
     response |-> "result"]

ImagenHttpError ==
    [success |-> FALSE, error |-> Err("backend", "status reason"), details |-> "response.text"]

ImagenException(e) == [success |-> FALSE, error |-> e, prompt |-> prompt]

GeminiSuccess ==
    [success |-> TRUE, image_data |-> Payload(GEMINI_MODEL), mime_type |-> "image/png",
     description |-> "", prompt |-> enhanced_prompt, aspect_ratio |-> aspect_ratio]

GeminiFailure(e) == [success |-> FALSE, error |-> e, prompt |-> enhanced_prompt]

----------------------------------------------------------------------------
(* main *)

\* a check for the key only, which lets the empty string through
PromptMissingKeyOnly(p) == p = Absent

\* `if not prompt` on input_data.get('prompt', '')
PromptMissing(p) == p = Absent \/ p = ""

Exit(printed, status) ==
    /\ stdout' = printed
    /\ exit_code' = <<status>>
    /\ pc' = "exited"

MainNoInput ==
    /\ pc = "start"
    /\ argv.kind = "noarg"
    /\ Exit([error |-> Err("main", "No input provided")], 1)
    /\ UNCHANGED <<script, env, argv, prompt, aspect_ratio, entered, idx, calls,
                   last_error, colors, synth, dims, result, raised,
                   styled, gradient, prompt_display, enhanced_prompt>>

\* json.loads raises JSONDecodeError; multi-model-image.py catches it as Exception
MainBadJson ==
    /\ pc = "start"
    /\ argv.kind = "badjson"
    /\ Exit([error |-> Err("main", IF script = MULTI THEN "str(e)" ELSE "Invalid JSON input")], 1)
    /\ UNCHANGED <<script, env, argv, prompt, aspect_ratio, entered, idx, calls,
                   last_error, colors, synth, dims, result, raised,
                   styled, gradient, prompt_display, enhanced_prompt>>

\* input_data.get raises AttributeError on a JSON value that is no object
MainNonObject ==
    /\ pc = "start"
    /\ argv.kind = "nonobject"
    /\ Exit([error |-> Err("main", "str(e)")], 1)
    /\ UNCHANGED <<script, env, argv, prompt, aspect_ratio, entered, idx, calls,
                   last_error, colors, synth, dims, result, raised,
                   styled, gradient, prompt_display, enhanced_prompt>>

MainNoPrompt ==
    /\ pc = "start"
    /\ argv.kind = "object"
    /\ PromptMissing(argv.prompt)
    /\ Exit([error |-> Err("main", "No prompt provided")], 1)
    /\ UNCHANGED <<script, env, argv, prompt, aspect_ratio, entered, idx, calls,
                   last_error, colors, synth, dims, result, raised,
                   styled, gradient, prompt_display, enhanced_prompt>>

MainCall ==
    /\ pc = "start"
    /\ argv.kind = "object"
    /\ ~PromptMissing(argv.prompt)
    /\ prompt' = argv.prompt
    /\ aspect_ratio' = AspectArg(argv.aspectRatio)
    /\ entered' = TRUE
    /\ pc' = "generate"
    /\ UNCHANGED <<script, env, argv, idx, calls, last_error, colors, synth, dims,
                   result, raised, stdout, exit_code,
                   styled, gradient, prompt_display, enhanced_prompt>>

\* print(json.dumps(result)) and the normal end of main
MainPrint ==
    /\ pc = "returned"
    /\ Exit(result, 0)
    /\ UNCHANGED <<script, env, argv, prompt, aspect_ratio, entered, idx, calls,
                   last_error, colors, synth, dims, result, raised,
                   styled, gradient, prompt_display, enhanced_prompt>>

\* except Exception as e: print(json.dumps({"error": str(e)})); sys.exit(1)
MainCatch ==
    /\ pc = "raised"
    /\ Exit([error |-> raised], 1)
    /\ UNCHANGED <<script, env, argv, prompt, aspect_ratio, entered, idx, calls,
                   last_error, colors, synth, dims, result, raised,
                   styled, gradient, prompt_display, enhanced_prompt>>

Return(r) ==
    /\ result' = r
    /\ pc' = "returned"

----------------------------------------------------------------------------
(* genai-image.py: generate_image_with_genai *)

GenaiKeys == {"VERTEX_API_KEY", "GOOGLE_CLOUD_API_KEY", "GEMINI_API_KEY"}

\* the key lookup and genai.Client(...); either may raise into the outer except
GenaiEnter ==
    /\ pc = "generate"
    /\ script = GENAI
    /\ IF env \cap GenaiKeys = {}
       THEN /\ Return(GenaiOuterFailure(Err("config", "No API key found")))
            /\ idx' = idx
       ELSE \E client_ok \in BOOLEAN :
              IF client_ok
              THEN /\ pc' = "chain"
                   /\ idx' = 1
                   /\ result' = result
              ELSE /\ Return(GenaiOuterFailure(Err("client", "genai.Client")))
                   /\ idx' = idx
    /\ UNCHANGED <<script, env, argv, prompt, aspect_ratio, entered, calls, last_error,
                   colors, synth, dims, raised, stdout, exit_code,
                   styled, gradient, prompt_display, enhanced_prompt>>

\* where the loop over model_options goes after a model gave no image
AfterFailure(i) == IF i + 1 > Len(model_options) THEN "fallback" ELSE "chain"

\* one iteration of `for model_name in model_options`
GenaiTryModel ==
    /\ pc = "chain"
    /\ script = GENAI
    /\ idx <= Len(model_options)
    /\ \E outcome \in {"image", "empty", "exception"} :
         /\ calls' = Append(calls, Call(model_options[idx], outcome))
         /\ CASE outcome = "image" ->
                   /\ Return(GenaiSuccess(model_options[idx]))
                   /\ UNCHANGED <<idx, last_error>>
              [] outcome = "empty" ->
                   /\ idx' = idx + 1
                   /\ pc' = AfterFailure(idx)
                   /\ UNCHANGED <<result, last_error>>
              [] outcome = "exception" ->
                   /\ last_error' = Err("backend", model_options[idx])
                   /\ idx' = idx + 1
                   /\ pc' = AfterFailure(idx)
                   /\ result' = result
    /\ UNCHANGED <<script, env, argv, prompt, aspect_ratio, entered, colors, synth,
                   dims, raised, stdout, exit_code,
                   styled, gradient, prompt_display, enhanced_prompt>>

\* the colour-description request to gemini-2.0-flash-exp and the choice of
\* color1, color2: from the answer ("ai") or from the MD5 of the prompt ("hash")
GenaiColors ==
    /\ pc = "fallback"
    /\ script = GENAI
    /\ \/ /\ calls' = Append(calls, Call(COLOR_MODEL, "exception"))
          /\ colors' = "threw"
          /\ Return(GenaiAllFailed(Err("placeholder", "colors")))
          /\ UNCHANGED gradient
       \/ \E response \in ColorResponses :
            LET found == FindColors(response)
                chosen == ChooseColors(found, prompt)
            IN  /\ calls' = Append(calls, Call(COLOR_MODEL, "text"))
                /\ text_response' = response
                /\ colors' = IF Len(found) >= 2 THEN "ai" ELSE "hash"
                /\ color1' = chosen[1]
                /\ color2' = chosen[2]
                /\ pc' = "draw"
                /\ result' = result
    /\ UNCHANGED <<script, env, argv, prompt, aspect_ratio, entered, idx, last_error,
                   synth, dims, raised, stdout, exit_code,
                   styled, prompt_display, enhanced_prompt>>

\* the gradient, the two lines of text and the PNG encoding
GenaiDraw ==
    /\ pc = "draw"
    /\ script = GENAI
    /\ \E drawn \in BOOLEAN :
         IF drawn
         THEN /\ dims' = aspect_map_genai(aspect_ratio)
              /\ prompt_display' = PromptDisplayGenai(prompt)
              /\ synth' = "ok"
              /\ Return(GenaiPlaceholder)
         ELSE /\ dims' \in {dims, aspect_map_genai(aspect_ratio)}
              /\ prompt_display' \in {prompt_display, PromptDisplayGenai(prompt)}
              /\ synth' = "threw"
              /\ Return(GenaiAllFailed(Err("placeholder", "draw")))
    /\ UNCHANGED <<script, env, argv, prompt, aspect_ratio, entered, idx, calls,
                   last_error, colors, raised, stdout, exit_code,
                   styled, gradient, enhanced_prompt>>

----------------------------------------------------------------------------
(* multi-model-image.py: generate_image *)

\* `if openai_key:`
MultiEnter ==
    /\ pc = "generate"
    /\ script = MULTI
    /\ pc' = IF "OPENAI_API_KEY" \in env THEN "chain" ELSE "style"
    /\ UNCHANGED <<script, env, argv, prompt, aspect_ratio, entered, idx, calls,
                   last_error, colors, synth, dims, result, raised, stdout, exit_code,
                   styled, gradient, prompt_display, enhanced_prompt>>

\* the DALL-E request and the download of the image; "empty" is a status other
\* than 200 or an answer without data
MultiDalle ==
    /\ pc = "chain"
    /\ script = MULTI
    /\ \E outcome \in {"image", "empty", "exception"} :
         /\ calls' = Append(calls, Call(DALLE, outcome))
         /\ IF outcome = "image"
            THEN Return(MultiDalleSuccess)
            ELSE /\ pc' = "style"
                 /\ result' = result
    /\ UNCHANGED <<script, env, argv, prompt, aspect_ratio, entered, idx, last_error,
                   colors, synth, dims, raised, stdout, exit_code,
                   styled, gradient, prompt_display, enhanced_prompt>>

\* create_ai_styled_image up to the shape loop: the size, the colours, the
\* gradient, the robot glyph and the number of iterations of the loop
MultiStyle ==
    /\ pc = "style"
    /\ script = MULTI
    /\ LET prompt_lower == Lower(prompt)
           colours == ThemeColors(Theme(prompt_lower))
       IN  /\ dims' = aspect_map_multi(aspect_ratio)
           /\ base_colors' = colours.base_colors
           /\ accent_color' = colours.accent_color
           /\ robot' = DrawsRobot(prompt_lower)
    /\ shapes_left' \in MinShapes..MaxShapes
    /\ pc' = "shapes"
    /\ UNCHANGED <<script, env, argv, prompt, aspect_ratio, entered, idx, calls,
                   last_error, colors, synth, result, raised, stdout, exit_code,
                   overlays, shape, gradient, prompt_display, enhanced_prompt>>

\* one iteration of `for _ in range(num_shapes)`: a 'triangle' composites nothing
MultiShape ==
    /\ pc = "shapes"
    /\ script = MULTI
    /\ shapes_left > 0
    /\ \E shape_type \in ShapeTypes, c \in 1..4, alpha \in Alphas :
         LET color == Append((base_colors \o <<accent_color>>)[c], alpha)
         IN  IF shape_type \in {"circle", "rectangle"}
             THEN /\ overlays' = overlays + 1
                  /\ shape' = [type |-> shape_type, fill |-> color]
             ELSE UNCHANGED <<overlays, shape>>
    /\ shapes_left' = shapes_left - 1
    /\ pc' = IF shapes_left = 1 THEN "draw" ELSE "shapes"
    /\ UNCHANGED <<script, env, argv, prompt, aspect_ratio, entered, idx, calls,
                   last_error, colors, synth, dims, result, raised, stdout, exit_code,
                   base_colors, accent_color, robot, gradient, prompt_display,
                   enhanced_prompt>>

\* the rest of create_ai_styled_image (the text, the blur, the PNG) and the
\* return that follows it; an exception of create_ai_styled_image is taken here
MultiDraw ==
    /\ pc = "draw"
    /\ script = MULTI
    /\ \E drawn \in BOOLEAN :
         IF drawn
         THEN /\ prompt_display' = PromptDisplayMulti(prompt)
              /\ synth' = "ok"
              /\ Return(MultiPlaceholder)
         ELSE /\ prompt_display' \in {prompt_display, PromptDisplayMulti(prompt)}
              /\ synth' = "threw"
              /\ Return(MultiFailure(Err("placeholder", "draw")))
    /\ UNCHANGED <<script, env, argv, prompt, aspect_ratio, entered, idx, calls,
                   last_error, colors, dims, raised, stdout, exit_code,
                   styled, gradient, enhanced_prompt>>

----------------------------------------------------------------------------
(* imagen-generate.py: generate_image_with_imagen *)

\* the key lookup (a ValueError that leaves the function) and the payload
ImagenEnter ==
    /\ pc = "generate"
    /\ script = IMAGEN
    /\ IF "VERTEX_API_KEY" \notin env
       THEN /\ raised' = Err("config", "No API key found")
            /\ pc' = "raised"
            /\ dims' = dims
       ELSE /\ dims' = aspect_map_imagen(aspect_ratio)
            /\ pc' = "chain"
            /\ raised' = raised
    /\ UNCHANGED <<script, env, argv, prompt, aspect_ratio, entered, idx, calls,
                   last_error, colors, synth, result, stdout, exit_code,
                   styled, gradient, prompt_display, enhanced_prompt>>

\* requests.post(endpoint, ...) and the four returns that follow it
ImagenPredict ==
    /\ pc = "chain"
    /\ script = IMAGEN
    /\ \E outcome \in {"image", "empty", "http_error", "exception"} :
         /\ calls' = Append(calls, Call(IMAGEN_MODEL, outcome))
         /\ Return(CASE outcome = "image" -> ImagenSuccess
                     [] outcome = "empty" -> ImagenNoImage
                     [] outcome = "http_error" -> ImagenHttpError
                     [] outcome = "exception" -> ImagenException(Err("backend", IMAGEN_MODEL)))
    /\ UNCHANGED <<script, env, argv, prompt, aspect_ratio, entered, idx, last_error,
                   colors, synth, dims, raised, stdout, exit_code,
                   styled, gradient, prompt_display, enhanced_prompt>>

----------------------------------------------------------------------------
(* generate_image.py: generate_image *)

GeminiKeys == {"GOOGLE_CLOUD_API_KEY", "VERTEX_API_KEY"}

\* input_data.get('businessContext', {})
BusinessContextArg ==
    IF "businessContext" \in DOMAIN argv THEN argv.businessContext ELSE EmptyContext

\* business_context.get(key, '')
Get(bc, key) == IF key \in DOMAIN bc THEN bc[key] ELSE ""

\* the overlay instruction added only together with the brand text
EnhancedPromptOverlayWithBrand(p, bc) ==
    LET business_name == Get(bc, "businessName")
        product_name == Get(bc, "productName")
        brand_tone == Get(bc, "brandTone")
        cta == Get(bc, "callToAction")
    IN  IF business_name # "" \/ product_name # ""
        THEN p \o "\n\nBrand: " \o business_name
               \o (IF product_name # "" THEN ", Product: " \o product_name ELSE "")
               \o (IF brand_tone # "" THEN ", Style: " \o brand_tone ELSE "")
               \o (IF cta # "" THEN "\n\nInclude text overlay: \"" \o cta \o "\"" ELSE "")
        ELSE p

\* enhanced_prompt: the prompt, the brand text, the overlay instruction
EnhancedPrompt(p, bc) ==
    LET business_name == Get(bc, "businessName")
        product_name == Get(bc, "productName")
        brand_tone == Get(bc, "brandTone")
        cta == Get(bc, "callToAction")
        branded ==
            IF DOMAIN bc # {} /\ (business_name # "" \/ product_name # "")
            THEN p \o "\n\nBrand: " \o business_name
                   \o (IF product_name # "" THEN ", Product: " \o product_name ELSE "")
                   \o (IF brand_tone # "" THEN ", Style: " \o brand_tone ELSE "")
            ELSE p
    IN  IF DOMAIN bc # {} /\ cta # ""
        THEN branded \o "\n\nInclude text overlay: \"" \o cta \o "\""
        ELSE branded

\* the key lookup and genai.Client(...), both outside the try, and the
\* enhancement of the prompt
GeminiEnter ==
    /\ pc = "generate"
    /\ script = GEMINI
    /\ IF env \cap GeminiKeys = {}
       THEN /\ raised' = Err("config", "No API key found")
            /\ pc' = "raised"
            /\ UNCHANGED enhanced_prompt
       ELSE \E client_ok \in BOOLEAN :
              IF client_ok
              THEN /\ enhanced_prompt' = EnhancedPrompt(prompt, BusinessContextArg)
                   /\ pc' = "chain"
                   /\ raised' = raised
              ELSE /\ raised' = Err("client", "genai.Client")
                   /\ pc' = "raised"
                   /\ UNCHANGED enhanced_prompt
    /\ UNCHANGED <<script, env, argv, prompt, aspect_ratio, entered, idx, calls,
                   last_error, colors, synth, dims, result, stdout, exit_code,
                   styled, gradient, prompt_display>>

\* client.models.generate_content(...) and the two returns that follow it
GeminiGenerate ==
    /\ pc = "chain"
    /\ script = GEMINI
    /\ \E outcome \in {"image", "empty", "exception"} :
         /\ calls' = Append(calls, Call(GEMINI_MODEL, outcome))
         /\ Return(CASE outcome = "image" -> GeminiSuccess
                     [] outcome = "empty" ->
                          GeminiFailure(Err("backend", "No image generated in response"))
                     [] outcome = "exception" -> GeminiFailure(Err("backend", GEMINI_MODEL)))
    /\ UNCHANGED <<script, env, argv, prompt, aspect_ratio, entered, idx, last_error,
                   colors, synth, dims, raised, stdout, exit_code,
                   styled, gradient, prompt_display, enhanced_prompt>>

----------------------------------------------------------------------------
(* The run *)

\* the locals before main has run
Fresh ==
    /\ pc = "start"
    /\ prompt = ""
    /\ aspect_ratio = ""
    /\ entered = FALSE
    /\ idx = 0
    /\ calls = <<>>
    /\ last_error = NoError
    /\ colors = "not_run"
    /\ synth = "not_run"
    /\ dims = NoDims
    /\ result = NoResult
    /\ raised = NoError
    /\ stdout = NoOutput
    /\ exit_code = Running
    /\ base_colors = <<>>
    /\ accent_color = <<>>
    /\ robot = FALSE
    /\ shapes_left = 0
    /\ overlays = 0
    /\ shape = NoShape
    /\ text_response = ""
    /\ color1 = ""
    /\ color2 = ""
    /\ prompt_display = ""
    /\ enhanced_prompt = ""

Init ==
    /\ script \in Scripts
    /\ env \in SUBSET EnvVars
    /\ argv \in Inputs
    /\ Fresh

Next ==
    \/ MainNoInput
    \/ MainBadJson
    \/ MainNonObject
    \/ MainNoPrompt
    \/ MainCall
    \/ GenaiEnter
    \/ GenaiTryModel
    \/ GenaiColors
    \/ GenaiDraw
    \/ MultiEnter
    \/ MultiDalle
    \/ MultiStyle
    \/ MultiShape
    \/ MultiDraw
    \/ ImagenEnter
    \/ ImagenPredict
    \/ GeminiEnter
    \/ GeminiGenerate
    \/ MainPrint
    \/ MainCatch

Spec == Init /\ [][Next]_vars

----------------------------------------------------------------------------
(* The runs that reach a placeholder renderer, on the prompts that exercise it: *)
(* multi-model-image.py without an OpenAI key and genai-image.py with a key    *)

RenderInputs ==
    {[kind |-> "object", prompt |-> p, aspectRatio |-> a] :
        p \in RenderPrompts, a \in {Absent, "1:1"}}

RenderInit ==
    /\ script \in {MULTI, GENAI}
    /\ env = IF script = GENAI THEN {"GEMINI_API_KEY"} ELSE {}
    /\ argv \in RenderInputs
    /\ Fresh

RenderNext ==
    \/ MainCall
    \/ GenaiEnter
    \/ GenaiTryModel
    \/ GenaiColors
    \/ GenaiDraw
    \/ MultiEnter
    \/ MultiStyle
    \/ MultiShape
    \/ MultiDraw
    \/ MainPrint

RenderSpec == RenderInit /\ [][RenderNext]_vars

----------------------------------------------------------------------------
(* The runs of generate_image.py on inputs with a businessContext *)

PromptInit ==
    /\ script = GEMINI
    /\ env \in SUBSET GeminiKeys
    /\ argv \in PromptInputs
    /\ Fresh

PromptNext ==
    \/ MainCall
    \/ GeminiEnter
    \/ GeminiGenerate
    \/ MainPrint
    \/ MainCatch

PromptSpec == PromptInit /\ [][PromptNext]_vars

----------------------------------------------------------------------------
(* What the properties below speak about *)

Last(seq) == seq[Len(seq)]

\* no backend that was invoked returned an image
NoImageObtained == \A i \in 1..Len(Invoked) : Invoked[i].outcome # "image"

\* every backend of the script's chain was invoked and failed
AllBackendsFailed == Len(Invoked) = Len(Chain(script)) /\ NoImageObtained

\* the scripts that have a local placeholder generator
PlaceholderScripts == {GENAI, MULTI}

SyntheticModels == {"fallback-gradient", "ai-styled-generator"}

\* the credential variables each script recognises for its backends
RecognizedKeys(s) ==
    CASE s = GENAI -> GenaiKeys
      [] s = MULTI -> {"OPENAI_API_KEY"}
      [] s = IMAGEN -> {"VERTEX_API_KEY"}
      [] s = GEMINI -> GeminiKeys

ValidInput == argv.kind = "object" /\ argv.prompt \notin {Absent, ""}

Exited == exit_code # Running

\* the table of sizes as the specification states it
AspectTable(a) ==
    IF a = "1:1" THEN <<1024, 1024>>
    ELSE IF a = "9:16" THEN <<576, 1024>>
    ELSE IF a = "4:3" THEN <<1024, 768>>
    ELSE IF a = "3:4" THEN <<768, 1024>>
    ELSE <<1024, 576>>

----------------------------------------------------------------------------
(* Properties *)

\* C1: the backends invoked are a prefix of the script's priority list, each
\* invoked at most once; only the last one invoked can have returned an image;
\* a run of the chain that got no image went through the whole list; and when
\* an earlier backend failed and a later one returned an image, the result is
\* a success whose model field names the later one and none of the earlier.
C1_FallbackOrder ==
    /\ Len(Invoked) <= Len(Chain(script))
    /\ \A i \in 1..Len(Invoked) : Invoked[i].name = Chain(script)[i]
    /\ \A i, j \in 1..Len(Invoked) : i # j => Invoked[i].name # Invoked[j].name
    /\ \A i \in 1..Len(Invoked) : Invoked[i].outcome = "image" => i = Len(Invoked)
    /\ (HasResult /\ Invoked # <<>> /\ NoImageObtained) => AllBackendsFailed
    /\ (Len(Invoked) >= 2 /\ Last(Invoked).outcome = "image") =>
          /\ HasResult
          /\ result.success
          /\ "model" \in DOMAIN result
          /\ result.model = Last(Invoked).name
          /\ \A i \in 1..(Len(Invoked) - 1) : result.model # Invoked[i].name

C1_Witness ==
    /\ script = GENAI
    /\ pc = "exited"
    /\ Len(Invoked) = 3
    /\ Invoked[1].outcome = "exception"
    /\ Invoked[2].outcome = "empty"
    /\ Invoked[3].outcome = "image"
    /\ stdout = result
    /\ result.model = model_options[3]

\* C2: in a script with a placeholder, once every backend of the chain has
\* failed the function returns a success tagged with a synthetic model name and
\* a note, having made no remote call besides those to the image backends,
\* unless the local drawing step threw.
C2_PlaceholderAfterAllFailed ==
    (HasResult /\ script \in PlaceholderScripts /\ AllBackendsFailed) =>
        /\ \A i \in 1..Len(calls) : calls[i].name \in ImageBackends
        /\ \/ synth = "threw"
           \/ /\ result.success
              /\ result.model \in SyntheticModels
              /\ "note" \in DOMAIN result

\* C3: a call of the generate function with a non-empty prompt returns a
\* success, unless no backend returned an image and the placeholder drawing
\* threw.
C3_SuccessUnlessExhausted ==
    (entered /\ pc \in {"returned", "raised", "exited"}) =>
        \/ HasResult /\ result.success
        \/ NoImageObtained /\ synth = "threw"

\* C4: a failure returned because the placeholder step failed after all
\* backends failed carries the failure of the last backend that failed.
C4_LastBackendErrorReported ==
    (/\ HasResult
     /\ ~result.success
     /\ script \in PlaceholderScripts
     /\ AllBackendsFailed
     /\ (synth = "threw" \/ colors = "threw")) =>
        /\ result.error.src = "backend"
        /\ result.error.what = Last(Invoked).name

\* C5: when none of the credential variables a script recognises is set, no
\* remote call is made and the run ends in a success carrying the placeholder
\* (unless the local drawing threw).
C5_MissingCredentialFallsBack ==
    (Exited /\ entered /\ env \cap RecognizedKeys(script) = {}) =>
        /\ calls = <<>>
        /\ \/ synth = "threw"
           \/ /\ HasResult
              /\ result.success
              /\ result.model \in SyntheticModels

\* C6: the exit status is 0 exactly when the input is a JSON object with a
\* non-empty prompt.
C6_ExitCode == Exited => (exit_code = <<0>> <=> ValidInput)

\* C7: on an input that is no JSON object with a non-empty prompt, the generate
\* function is never called, no remote call and no drawing is started, and the
\* run ends printing an object with an error field and a non-zero status.
C7_InvalidInputRejected ==
    ~ValidInput =>
        /\ ~entered
        /\ ~HasResult
        /\ calls = <<>>
        /\ synth = "not_run"
        /\ colors = "not_run"
        /\ pc \in {"start", "exited"}
        /\ pc = "exited" => /\ "error" \in DOMAIN stdout
                            /\ Exited
                            /\ exit_code # <<0>>

C7_Witness ==
    /\ argv.kind = "object"
    /\ argv.prompt = ""
    /\ pc = "exited"
    /\ exit_code = <<1>>
    /\ stdout = [error |-> Err("main", "No prompt provided")]

\* C8: a returned dict has image_data exactly when success is true and error
\* exactly when success is false.
C8_ResultShape ==
    HasResult =>
        /\ "image_data" \in DOMAIN result <=> result.success
        /\ "error" \in DOMAIN result <=> ~result.success

C8_Witness ==
    /\ script = IMAGEN
    /\ HasResult
    /\ ~result.success
    /\ "response" \in DOMAIN result
    /\ "error" \in DOMAIN result
    /\ "image_data" \notin DOMAIN result

\* C9: a returned success has a model field, and it names what produced the
\* image the result carries.
C9_SuccessHasModel ==
    (HasResult /\ result.success) =>
        /\ "model" \in DOMAIN result
        /\ result.image_data = Payload(result.model)

\* C10: whichever script looked the size up, it is the size the table gives for
\* the aspect ratio; a drawn placeholder has that size.
C10_AspectLookup ==
    /\ dims # NoDims => dims = AspectTable(aspect_ratio)
    /\ synth = "ok" => dims = AspectTable(aspect_ratio)
    /\ (script = IMAGEN /\ calls # <<>>) => dims = AspectTable(aspect_ratio)

C10_Witness ==
    /\ script = MULTI
    /\ synth = "ok"
    /\ aspect_ratio = "2:1"
    /\ dims = <<1024, 576>>
    /\ result.model = "ai-styled-generator"

----------------------------------------------------------------------------
(* What the properties of the renderers speak about *)

UpperChar(c) ==
    IF \E i \in 1..Len(LowerLetters) : CharAt(LowerLetters, i) = c
    THEN CharAt(UpperLetters, CHOOSE i \in 1..Len(LowerLetters) : CharAt(LowerLetters, i) = c)
    ELSE c

\* two texts that differ at most in the case of their letters
SameUpToCase(a, b) ==
    /\ Len(a) = Len(b)
    /\ \A i \in 1..Len(a) : UpperChar(CharAt(a, i)) = UpperChar(CharAt(b, i))

\* the keyword occurs in the text, in whatever case
ContainsIgnoringCase(str, kw) ==
    \E i \in 1..Len(str) :
        i + Len(kw) - 1 <= Len(str) /\ SameUpToCase(SubSeq(str, i, i + Len(kw) - 1), kw)

\* the categories in the order the specification registers them
ClaimedCategories == <<"tech", "office", "nature", "sunset", "ocean">>

ClaimedKeywords(category) ==
    CASE category = "tech" -> {"robot", "ai", "tech"}
      [] category = "office" -> {"office", "work"}
      [] category = "nature" -> {"nature", "forest", "tree"}
      [] category = "sunset" -> {"sunset", "sunrise"}
      [] category = "ocean" -> {"ocean", "water", "sea"}

MatchingCategories(p) ==
    {i \in 1..Len(ClaimedCategories) :
        \E kw \in ClaimedKeywords(ClaimedCategories[i]) : ContainsIgnoringCase(p, kw)}

ExpectedCategory(p) ==
    IF MatchingCategories(p) = {} THEN "default"
    ELSE ClaimedCategories[CHOOSE i \in MatchingCategories(p) :
                              \A j \in MatchingCategories(p) : i <= j]

\* create_ai_styled_image has chosen its colours
Styled == script = MULTI /\ pc \in {"shapes", "draw", "returned", "exited"}

TechAccent == <<0, 255, 200>>

AllPrompts == Prompts \cup RenderPrompts

\* per prompt: the prompts that differ from it only in case, the categories
\* that have a keyword in it, the category expected, whether it names a robot
Expected ==
    [p \in AllPrompts |->
        [variants |-> {q \in AllPrompts : SameUpToCase(q, p)},
         matching |-> MatchingCategories(p),
         category |-> ExpectedCategory(p),
         names_robot |-> ContainsIgnoringCase(p, "robot")]]

\* per prompt: what create_ai_styled_image chooses for it
StyleOf ==
    [q \in AllPrompts |->
        [base_colors |-> ThemeColors(Theme(Lower(q))).base_colors,
         accent_color |-> ThemeColors(Theme(Lower(q))).accent_color,
         robot |-> DrawsRobot(Lower(q))]]

\* C11: the colours and the robot decision of a styled image are those of every
\* prompt that differs from its prompt only in the case of letters.
C11_CaseInsensitivePalette ==
    Styled =>
        \A q \in Expected[prompt].variants :
            /\ StyleOf[q].base_colors = base_colors
            /\ StyleOf[q].accent_color = accent_color
            /\ StyleOf[q].robot = robot

C11_Witness ==
    /\ Styled
    /\ pc = "exited"
    /\ prompt = "ROBOT army"
    /\ "robot army" \in Expected[prompt].variants
    /\ accent_color = TechAccent
    /\ robot

\* C12: the colours are those of the first category, in the order tech, office,
\* nature, sunset, ocean, that has a keyword in the prompt, wherever the
\* keywords stand; they are the default colours exactly when none has.
C12_FirstCategoryWins ==
    Styled =>
        /\ base_colors = ThemeColors(Expected[prompt].category).base_colors
        /\ accent_color = ThemeColors(Expected[prompt].category).accent_color
        /\ base_colors = ThemeColors("default").base_colors
              <=> Expected[prompt].matching = {}

C12_Witness ==
    /\ Styled
    /\ prompt = "sea at work"
    /\ Expected[prompt].matching = {2, 5}
    /\ accent_color = ThemeColors("office").accent_color
    /\ synth = "ok"

\* C16: the robot glyph is drawn exactly when the prompt contains "robot" in
\* some case, and then the accent colour, which fills the eyes, is (0, 255, 200).
C16_RobotGlyphTech ==
    Styled =>
        /\ robot <=> Expected[prompt].names_robot
        /\ robot => accent_color = TechAccent

C16_Witness ==
    /\ Styled
    /\ prompt = "office robot"
    /\ robot
    /\ accent_color = TechAccent
    /\ synth = "ok"

\* the prompt when it has at most n characters, else its first n characters
\* followed by "..."
CutAt(p, n) == IF Len(p) <= n THEN p ELSE SubSeq(p, 1, n) \o "..."

CutLengths == {60, 80}

\* per prompt and cut length: the snippet expected
SnippetOf == [p \in AllPrompts |-> [n \in CutLengths |-> CutAt(p, n)]]

\* a placeholder image has been drawn
Drawn == script \in PlaceholderScripts /\ synth = "ok"

ShapesDone == script = MULTI /\ (pc = "draw" \/ synth # "not_run")

\* the three base colours and the accent colour, each with a translucent alpha
PaletteFills ==
    {Append(c, alpha) : c \in Range(base_colors) \cup {accent_color}, alpha \in 1..254}

\* C14: whatever the random choices, between 3 and 7 shapes are overlaid, each
\* a circle or a rectangle filled with a base colour or the accent colour.
C14_ThreeToSevenShapes ==
    /\ ShapesDone => overlays \in MinShapes..MaxShapes
    /\ (Styled /\ shape # NoShape) =>
           /\ shape.type \in {"circle", "rectangle"}
           /\ shape.fill \in PaletteFills

HexChars ==
    {"0", "1", "2", "3", "4", "5", "6", "7", "8", "9", "A", "B", "C", "D", "E", "F",
     "a", "b", "c", "d", "e", "f"}

\* a #RRGGBB code starts at position i of the text
CodeAt(text, i) ==
    /\ i + 6 <= Len(text)
    /\ SubSeq(text, i, i) = "#"
    /\ \A k \in 1..6 : SubSeq(text, i + k, i + k) \in HexChars

\* the least element of a non-empty set of numbers
Least(S) == CHOOSE i \in S : \A j \in S : i <= j

\* per answer: how many codes it contains, and the first two of them
CodesOf ==
    [text \in ColorResponses |->
        LET starts == {i \in 1..Len(text) : CodeAt(text, i)}
            i1 == Least(starts)
            i2 == Least(starts \ {i1})
        IN  IF Cardinality(starts) >= 2
            THEN [enough |-> TRUE, first |-> SubSeq(text, i1, i1 + 6),
                  second |-> SubSeq(text, i2, i2 + 6)]
            ELSE [enough |-> FALSE, first |-> "", second |-> ""]]

\* per prompt: "#" and hex digits 0-5, "#" and hex digits 6-11 of its MD5 digest
DigestColors ==
    [p \in AllPrompts |->
        [first |-> "#" \o SubSeq(Md5Hex(p), 1, 6),
         second |-> "#" \o SubSeq(Md5Hex(p), 7, 12)]]

\* genai-image.py has chosen the two colours of its gradient
ColoursChosen == script = GENAI /\ colors \in {"ai", "hash"}

\* C15: with at least two #RRGGBB codes in the answer the gradient runs from the
\* first to the second of them; otherwise both colours come from the MD5 digest
\* of the prompt alone (hex digits 0-5 and 6-11).
C15_ColourChoice ==
    ColoursChosen =>
        IF CodesOf[text_response].enough
        THEN /\ colors = "ai"
             /\ color1 = CodesOf[text_response].first
             /\ color2 = CodesOf[text_response].second
        ELSE /\ colors = "hash"
             /\ color1 = DigestColors[prompt].first
             /\ color2 = DigestColors[prompt].second

C15_Witness ==
    /\ ColoursChosen
    /\ text_response = "#a1b2c3"
    /\ prompt = "cat"
    /\ color1 = "#d077f2"
    /\ color2 = "#44def8"
    /\ synth = "ok"

\* generate_image of generate_image.py has returned a result
GeminiReturned == script = GEMINI /\ HasResult

\* a field of the business context is given and not empty
Given(key) == key \in DOMAIN BusinessContextArg /\ BusinessContextArg[key] # ""

StartsWith(str, prefix) ==
    Len(prefix) <= Len(str) /\ SubSeq(str, 1, Len(prefix)) = prefix

EndsWith(str, suffix) ==
    Len(suffix) <= Len(str)
        /\ SubSeq(str, Len(str) - Len(suffix) + 1, Len(str)) = suffix

\* C17: the prompt of a result of generate_image.py, success or failure, is the
\* enhanced prompt: the prompt itself without a business context; with the
\* brand, product and tone text exactly when businessName or productName is
\* given (a tone alone adds nothing); and with the overlay instruction exactly
\* when callToAction is given, whatever the other fields.
C17_EnhancedPrompt ==
    GeminiReturned =>
        LET named == Given("businessName") \/ Given("productName")
        IN  /\ result.prompt = enhanced_prompt
            /\ StartsWith(result.prompt, prompt)
            /\ BusinessContextArg = EmptyContext => result.prompt = prompt
            /\ Contains(result.prompt, "Brand: ") <=> named
            /\ Contains(result.prompt, ", Product: Mug") <=> Given("productName")
            /\ Contains(result.prompt, ", Style: playful")
                  <=> (named /\ Given("brandTone"))
            /\ EndsWith(result.prompt, "Include text overlay: \"Buy now\"")
                  <=> Given("callToAction")
            /\ (~named /\ ~Given("callToAction")) => result.prompt = prompt

C17_Witness ==
    /\ GeminiReturned
    /\ ~result.success
    /\ BusinessContextArg = [brandTone |-> "playful", callToAction |-> "Buy now"]
    /\ result.prompt = "cat\n\nInclude text overlay: \"Buy now\""
    /\ pc = "exited"

====
